---- MODULE Spec2Model ----
(***************************************************************************)
(* Chat core of LocalTreasures-Backend: the Chat model (models/Chat.js),   *)
(* the chat controller (controllers/chatController.js) and the realtime    *)
(* handlers (utils/socketHandlers.js).                                     *)
(*                                                                         *)
(* The collection of Chat documents is the variable chats.  Every request  *)
(* handler is an async function: it reads the document (findById/findOne), *)
(* changes its own in-memory copy, and later writes the changed paths back *)
(* (document.save()).  Between the read and the write other handlers run,  *)
(* so a handler is two steps: the load step computes the update that       *)
(* save() will send, the save step applies it to the stored document.      *)
(***************************************************************************)
EXTENDS Integers, Sequences, FiniteSets, TLC

\* ---------------------------------------------------------------- bounds
NumUsers == 3
NumProcs == 2
MaxReqs == 2
MaxTicks == 2
NumConns == 3

\* ------------------------------------------------------ program constants
DedupWindowMs == 5000
MaxContentLen == 1000
ListLimit == 50

\* one tick of the clock: one tick is inside the dedup window, two are outside
TickMs == (DedupWindowMs * 3) \div 5

Users == 1..NumUsers
Procs == 1..NumProcs
NoUser == 0
NoTime == -1

\* request bodies: sequences of characters
Contents == { <<"a">>, <<"a", " ">>, <<"b">> }

\* socket ids
Conns == 1..NumConns

\* the content that share_location stores
SharedLocation == <<"Shared location">>

\* what a send_message event may carry as content: no validation precedes the
\* handler, so an empty or a blank content arrives as it is
SocketContents == Contents \cup { <<>>, <<" ">> }

\* chats: the Chat collection; now: the server clock; procs: the handlers in
\* flight; conns: the sockets; activeUsers: the presence map; rooms: the
\* membership of the chat_<id> rooms; inbox: the events each socket has been
\* sent since the observation began; last: the step just taken; reqs: the
\* number of requests made
VARIABLES chats, now, procs, conns, activeUsers, rooms, inbox, last, reqs
vars == <<chats, now, procs, conns, activeUsers, rooms, inbox, last, reqs>>
gateway == <<conns, activeUsers, rooms, inbox>>

\* ------------------------------------------------------------- strings
RECURSIVE TrimLeft(_)
TrimLeft(s) == IF s # <<>> /\ Head(s) = " " THEN TrimLeft(Tail(s)) ELSE s

RECURSIVE TrimRight(_)
TrimRight(s) ==
  IF s # <<>> /\ s[Len(s)] = " " THEN TrimRight(SubSeq(s, 1, Len(s) - 1)) ELSE s

\* String.prototype.trim
Trim(s) == TrimRight(TrimLeft(s))

\* [user1Id.toString(), user2Id.toString()].sort()
SortedIds(a, b) == IF a <= b THEN <<a, b>> ELSE <<b, a>>

Elems(s) == { s[i] : i \in 1..Len(s) }

\* ------------------------------------------------------------ documents
NoLast == [content |-> <<>>, sender |-> NoUser, timestamp |-> NoTime]

\* new this({type: 'direct', participants: [...]}) with the schema defaults
NewChat(ids) ==
  [ participants   |-> ids,
    touched        |-> FALSE,
    participantIds |-> <<>>,
    type           |-> "direct",
    isActive       |-> TRUE,
    isBlocked      |-> FALSE,
    blockedBy      |-> NoUser,
    messages       |-> <<>>,
    lastMessage    |-> NoLast,
    unreadCount    |-> << >>,
    v              |-> 0 ]

IsParticipant(chat, u) == \E i \in 1..Len(chat.participants) : chat.participants[i] = u

\* chatSchema.methods.getUnreadCount
GetUnreadCount(chat, u) ==
  IF u \in DOMAIN chat.unreadCount THEN chat.unreadCount[u] ELSE 0

\* Map.set(key, value)
MapSet(m, k, x) == [y \in (DOMAIN m) \cup {k} |-> IF y = k THEN x ELSE m[y]]

NonDeleted(msgs) == { i \in 1..Len(msgs) : ~msgs[i].isDeleted }

\* BumpUnread without the test against the sender of the last message
RECURSIVE BumpUnreadOfAll(_, _, _, _)
BumpUnreadOfAll(m, parts, i, sender) ==
  IF i > Len(parts) THEN m
  ELSE BumpUnreadOfAll(MapSet(m, parts[i],
                              (IF parts[i] \in DOMAIN m THEN m[parts[i]] ELSE 0) + 1),
                       parts, i + 1, sender)

\* participants.forEach(... unreadCount.set(userId, currentCount + 1))
RECURSIVE BumpUnread(_, _, _, _)
BumpUnread(m, parts, i, sender) ==
  IF i > Len(parts) THEN m
  ELSE IF parts[i] # sender
       THEN BumpUnread(MapSet(m, parts[i],
                              (IF parts[i] \in DOMAIN m THEN m[parts[i]] ELSE 0) + 1),
                       parts, i + 1, sender)
       ELSE BumpUnread(m, parts, i + 1, sender)

\* chatSchema.pre('save'): orig is the document as loaded (or as constructed
\* when isNew), doc the document after the handler's changes.
PreSave(orig, doc, isNew) ==
  LET d1 == IF doc.participants # orig.participants \/ doc.touched \/ isNew
            THEN [doc EXCEPT !.participantIds =
                    SortedIds(doc.participants[1], doc.participants[2])]
            ELSE doc
  IN IF d1.messages # orig.messages /\ Len(d1.messages) > 0
     THEN LET lastMsg == d1.messages[Len(d1.messages)]
          IN [d1 EXCEPT
                !.lastMessage   = [content   |-> lastMsg.content,
                                   sender    |-> lastMsg.sender,
                                   timestamp |-> lastMsg.createdAt],
                !.unreadCount   = BumpUnread(d1.unreadCount, d1.participants, 1,
                                             lastMsg.sender)]
     ELSE d1

\* ------------------------------------------------- the unique index
\* index {participantIds: 1, type: 1, isActive: 1}, unique, partial on
\* type = 'direct' and isActive = true.  participantIds is an array, so the
\* index is multikey: a document has one key per array element, and a key may
\* belong to one document only.
IndexKeys(doc) ==
  IF doc.type = "direct" /\ doc.isActive THEN Elems(doc.participantIds) ELSE {}

\* DuplicateKey of a collection without the unique index
NoUniqueIndex(coll, doc) == FALSE

DuplicateKey(coll, doc) ==
  \E i \in 1..Len(coll) : IndexKeys(coll[i]) \cap IndexKeys(doc) # {}

\* FindDirect with a query that matches any of the ids (participantIds: {$in})
FindDirectOfEither(coll, ids) ==
  { i \in 1..Len(coll) : /\ Elems(coll[i].participantIds) \cap Elems(ids) # {}
                         /\ coll[i].type = "direct"
                         /\ coll[i].isActive }

\* findOne({participantIds: sorted, type: 'direct', isActive: true})
FindDirect(coll, ids) ==
  { i \in 1..Len(coll) : /\ coll[i].participantIds = ids
                         /\ coll[i].type = "direct"
                         /\ coll[i].isActive }

FirstOf(S) == CHOOSE i \in S : \A j \in S : i <= j

Idle == [pc |-> "idle"]

\* a request is handled in the first idle handler slot
Slot(p) ==
  /\ procs[p] = Idle
  /\ \A q \in Procs : q < p => procs[q] # Idle

\* every request counts against the request budget
Accept(p) ==
  /\ Slot(p)
  /\ reqs < MaxReqs
  /\ reqs' = reqs + 1

Event(op, u, cid, content, outcome) ==
  [op |-> op, user |-> u, cid |-> cid, content |-> content, outcome |-> outcome]

\* ------------------------------------------- findOrCreateDirectChat
\* A finished call keeps its result (a chat id, or 0 for a thrown error) in
\* its slot until the caller has used it.
FocDone(a, b, res) == [pc |-> "foc_done", a |-> a, b |-> b, res |-> res]

\* the call, up to the first findOne and "if (chat) return chat"
FocCall(p, a, b) ==
  /\ Accept(p)
  /\ a # b
  /\ LET ids == SortedIds(a, b)
         found == FindDirect(chats, ids)
     IN IF found # {}
        THEN procs' = [procs EXCEPT ![p] = FocDone(a, b, FirstOf(found))]
        ELSE procs' = [procs EXCEPT ![p] =
                         [pc |-> "foc_insert", a |-> a, b |-> b, ids |-> ids]]
  /\ last' = Event("foc", NoUser, 0, <<>>, "step")
  /\ UNCHANGED <<chats, now>>
  /\ UNCHANGED gateway

\* chat = new this(...); await chat.save()
FocInsert(p) ==
  /\ procs[p].pc = "foc_insert"
  /\ LET fresh == NewChat(procs[p].ids)
         doc == PreSave(fresh, fresh, TRUE)
     IN IF DuplicateKey(chats, doc)
        THEN /\ procs' = [procs EXCEPT ![p].pc = "foc_retry"]
             /\ chats' = chats
             /\ last' = Event("foc", NoUser, 0, <<>>, "step")
        ELSE /\ chats' = Append(chats, doc)
             /\ procs' = [procs EXCEPT ![p] =
                            FocDone(procs[p].a, procs[p].b, Len(chats) + 1)]
             /\ last' = Event("foc", NoUser, 0, <<>>, "step")
  /\ UNCHANGED <<now, reqs>>
  /\ UNCHANGED gateway

\* catch (error): if (error.code === 11000) findOne again; throw error
FocRetry(p) ==
  /\ procs[p].pc = "foc_retry"
  /\ LET found == FindDirect(chats, procs[p].ids)
     IN IF found # {}
        THEN /\ procs' = [procs EXCEPT ![p] =
                            FocDone(procs[p].a, procs[p].b, FirstOf(found))]
             /\ last' = Event("foc", NoUser, 0, <<>>, "refound")
        ELSE /\ procs' = [procs EXCEPT ![p] = FocDone(procs[p].a, procs[p].b, 0)]
             /\ last' = Event("foc", NoUser, 0, <<>>, "thrown")
  /\ UNCHANGED <<chats, now, reqs>>
  /\ UNCHANGED gateway

\* getOrCreateDirectChat: res.status(200).json({chat}) / the error handler
FocRespond(p) ==
  /\ procs[p].pc = "foc_done"
  /\ procs' = [procs EXCEPT ![p] = Idle]
  /\ last' = Event("foc", NoUser, 0, <<>>, "step")
  /\ UNCHANGED <<chats, now, reqs>>
  /\ UNCHANGED gateway

\* ------------------------------------------------- Chat methods
NewMessage(sender, content, t) ==
  [ sender    |-> sender,
    content   |-> content,
    createdAt |-> t,
    readBy    |-> {sender},
    isDeleted |-> FALSE,
    deletedAt |-> NoTime ]

\* RecentDuplicate without the comparison of the senders
RecentDuplicateOfAnySender(chat, sender, content, t) ==
  { i \in 1..Len(chat.messages) :
      /\ chat.messages[i].content = content
      /\ chat.messages[i].createdAt > t - DedupWindowMs
      /\ ~chat.messages[i].isDeleted }

\* addMessage / sendMessage: this.messages.find(msg => same sender, same
\* content, createdAt > fiveSecondsAgo, !isDeleted)
RecentDuplicate(chat, sender, content, t) ==
  { i \in 1..Len(chat.messages) :
      /\ chat.messages[i].sender = sender
      /\ chat.messages[i].content = content
      /\ chat.messages[i].createdAt > t - DedupWindowMs
      /\ ~chat.messages[i].isDeleted }

\* addMessage, when no recent duplicate was found: this.messages.push(message)
AddMessage(doc, sender, content, t) ==
  [doc EXCEPT !.messages = Append(@, NewMessage(sender, content, t))]

\* chatSchema.methods.markAsRead, up to this.save().  lastSeenAt is read by
\* no operation, so its value is not kept: touched tells whether the handler
\* changed it (participant.lastSeenAt = new Date() differs from the stored
\* date), which is all that save() uses.  touch is FALSE when new Date() is
\* the stored millisecond.
MarkAsRead(doc, u, touch) ==
  [doc EXCEPT
     !.messages    = [i \in 1..Len(doc.messages) |->
                        IF doc.messages[i].sender # u /\ u \notin doc.messages[i].readBy
                        THEN [doc.messages[i] EXCEPT !.readBy = @ \cup {u}]
                        ELSE doc.messages[i]],
     !.unreadCount = MapSet(doc.unreadCount, u, 0),
     !.touched     = IsParticipant(doc, u) /\ touch]

\* ToggleBlock that lets either participant lift a block
ToggleBlockByAnyone(doc, u) ==
  IF doc.isBlocked
  THEN [doc EXCEPT !.isBlocked = FALSE, !.blockedBy = NoUser]
  ELSE [doc EXCEPT !.isBlocked = TRUE, !.blockedBy = u]

\* chatSchema.methods.toggleBlock, up to this.save()
ToggleBlock(doc, u) ==
  IF doc.isBlocked /\ doc.blockedBy = u
  THEN [doc EXCEPT !.isBlocked = FALSE, !.blockedBy = NoUser]
  ELSE IF ~doc.isBlocked
       THEN [doc EXCEPT !.isBlocked = TRUE, !.blockedBy = u]
       ELSE doc

\* SoftDelete that also blanks the content of the deleted message
SoftDeleteWipingContent(doc, i, t) ==
  [doc EXCEPT !.messages[i].isDeleted = TRUE, !.messages[i].deletedAt = t,
              !.messages[i].content = <<>>]

\* SoftDelete that sets the flag and leaves deletedAt as it is
SoftDeleteFlagOnly(doc, i, t) ==
  [doc EXCEPT !.messages[i].isDeleted = TRUE]

\* getChat with the default page and limit: chat.messages.filter(msg =>
\* !msg.isDeleted).slice(-limit - skip, -skip || undefined)
DefaultListing(chat) ==
  LET shown == SelectSeq(chat.messages, LAMBDA m : ~m.isDeleted)
  IN SubSeq(shown, IF Len(shown) > ListLimit THEN Len(shown) - ListLimit + 1 ELSE 1,
            Len(shown))

\* getChat: totalMessages
ListingTotal(chat) == Len(SelectSeq(chat.messages, LAMBDA m : ~m.isDeleted))

\* deleteMessage: message.isDeleted = true; message.deletedAt = new Date()
SoftDelete(doc, i, t) ==
  [doc EXCEPT !.messages[i].isDeleted = TRUE, !.messages[i].deletedAt = t]

\* chat.isBlocked && !chat.blockedBy.equals(user)
BlockedFor(chat, u) == chat.isBlocked /\ chat.blockedBy # u

\* the content, sender and createdAt of a message; an event carries the
\* message in this form
MsgView(m) == [content |-> m.content, sender |-> m.sender, timestamp |-> m.createdAt]

\* ------------------------------------------------- document.save()
\* save() sends the paths that differ from the loaded document: $push for
\* the new array elements, $set for the changed fields.  A $push into the
\* top-level messages array increments the version; a $push into an array
\* inside messages (readBy) requires the loaded version and increments it; a
\* $set below an array element (messages.i.isDeleted, participants.i.
\* lastSeenAt) requires the loaded version.  No handler changes the content,
\* sender or createdAt of a loaded message; save() would send such a change
\* as a $set below the array element like any other.
Delta(orig, doc) ==
  LET n == Len(orig.messages)
      push == SubSeq(doc.messages, n + 1, Len(doc.messages))
      read == { <<i, u>> \in (1..n) \X Users :
                  u \in doc.messages[i].readBy \ orig.messages[i].readBy }
      del  == { i \in 1..n :
                  \/ doc.messages[i].isDeleted # orig.messages[i].isDeleted
                  \/ doc.messages[i].deletedAt # orig.messages[i].deletedAt }
      edit == { i \in 1..n : MsgView(doc.messages[i]) # MsgView(orig.messages[i]) }
      keys == { u \in DOMAIN doc.unreadCount :
                  u \notin DOMAIN orig.unreadCount
                  \/ doc.unreadCount[u] # orig.unreadCount[u] }
  IN [ v      |-> orig.v,
       where  |-> read # {} \/ del # {} \/ edit # {} \/ doc.touched,
       inc    |-> push # <<>> \/ read # {},
       push   |-> push,
       read   |-> read,
       del    |-> [i \in del |-> doc.messages[i].deletedAt],
       edit   |-> [i \in edit |-> MsgView(doc.messages[i])],
       unread |-> [u \in keys |-> doc.unreadCount[u]],
       lastMessage |-> IF doc.lastMessage # orig.lastMessage
                       THEN <<doc.lastMessage>> ELSE <<>>,
       block  |-> IF doc.isBlocked # orig.isBlocked \/ doc.blockedBy # orig.blockedBy
                  THEN <<doc.isBlocked, doc.blockedBy>> ELSE <<>> ]

\* ApplyDelta of a store that ignores the update of a copy loaded at an
\* older version
ApplyDeltaIfCurrent(db, d) ==
  IF d.v # db.v THEN db ELSE
  [db EXCEPT
     !.messages =
        [i \in 1..Len(db.messages) |->
           [db.messages[i] EXCEPT
              !.content   = IF i \in DOMAIN d.edit THEN d.edit[i].content ELSE @,
              !.sender    = IF i \in DOMAIN d.edit THEN d.edit[i].sender ELSE @,
              !.createdAt = IF i \in DOMAIN d.edit THEN d.edit[i].timestamp ELSE @,
              !.readBy    = @ \cup { u \in Users : <<i, u>> \in d.read },
              !.isDeleted = IF i \in DOMAIN d.del THEN TRUE ELSE @,
              !.deletedAt = IF i \in DOMAIN d.del THEN d.del[i] ELSE @]]
        \o d.push,
     !.unreadCount   = [u \in (DOMAIN db.unreadCount) \cup (DOMAIN d.unread) |->
                          IF u \in DOMAIN d.unread THEN d.unread[u]
                          ELSE db.unreadCount[u]],
     !.lastMessage   = IF d.lastMessage # <<>> THEN d.lastMessage[1] ELSE @,
     !.isBlocked     = IF d.block # <<>> THEN d.block[1] ELSE @,
     !.blockedBy     = IF d.block # <<>> THEN d.block[2] ELSE @,
     !.v             = IF d.inc THEN @ + 1 ELSE @]

\* the update applied to the stored document
ApplyDelta(db, d) ==
  [db EXCEPT
     !.messages =
        [i \in 1..Len(db.messages) |->
           [db.messages[i] EXCEPT
              !.content   = IF i \in DOMAIN d.edit THEN d.edit[i].content ELSE @,
              !.sender    = IF i \in DOMAIN d.edit THEN d.edit[i].sender ELSE @,
              !.createdAt = IF i \in DOMAIN d.edit THEN d.edit[i].timestamp ELSE @,
              !.readBy    = @ \cup { u \in Users : <<i, u>> \in d.read },
              !.isDeleted = IF i \in DOMAIN d.del THEN TRUE ELSE @,
              !.deletedAt = IF i \in DOMAIN d.del THEN d.del[i] ELSE @]]
        \o d.push,
     !.unreadCount   = [u \in (DOMAIN db.unreadCount) \cup (DOMAIN d.unread) |->
                          IF u \in DOMAIN d.unread THEN d.unread[u]
                          ELSE db.unreadCount[u]],
     !.lastMessage   = IF d.lastMessage # <<>> THEN d.lastMessage[1] ELSE @,
     !.isBlocked     = IF d.block # <<>> THEN d.block[1] ELSE @,
     !.blockedBy     = IF d.block # <<>> THEN d.block[2] ELSE @,
     !.v             = IF d.inc THEN @ + 1 ELSE @]

\* ------------------------------------------------- the gateway state
NewConn == [state |-> "new", user |-> NoUser]

Online(k) == conns[k].state = "online"

\* the sockets in room chat_<cid>
RoomOf(cid) == { k \in Conns : <<k, cid>> \in rooms }

\* the sockets in room user_<u>: socket.join(`user_${socket.userId}`)
PersonalRoom(u) == { k \in Conns : Online(k) /\ conns[k].user = u }

\* an emitted event: its name and the chatId, userId and message it carries
Ev(type, cid, u, m) == [type |-> type, cid |-> cid, user |-> u, message |-> m]

\* io.to(room).emit / socket.emit: the connected sockets among K are sent ev
Deliver(box, K, ev) ==
  [k \in Conns |-> IF k \in K /\ Online(k) THEN Append(box[k], ev) ELSE box[k]]

\* the handler has changed its copy and called save(): run the pre('save')
\* hook and keep the update until the store applies it.  via is the entry
\* point, k its socket (0 for an HTTP request).
PendingVia(p, op, via, k, u, cid, orig, doc) ==
  /\ procs' = [procs EXCEPT ![p] =
       [pc |-> "save", op |-> op, via |-> via, conn |-> k, user |-> u, cid |-> cid,
        d |-> Delta(orig, PreSave(orig, doc, FALSE))]]
  /\ last' = Event("load", NoUser, 0, <<>>, "pending")
  /\ UNCHANGED <<chats, now>>
  /\ UNCHANGED gateway

Pending(p, op, u, cid, orig, doc) == PendingVia(p, op, "http", 0, u, cid, orig, doc)

\* the handler answers without writing
Reply(p, op, u, cid, content, outcome) ==
  /\ last' = IF outcome = "duplicate" THEN Event(op, u, cid, content, outcome)
             ELSE Event("reply", NoUser, 0, <<>>, outcome)
  /\ UNCHANGED <<chats, now, procs>>
  /\ UNCHANGED gateway

\* SocketError of a handler that reports the error with io.emit
SocketErrorToAll(k, outcome) ==
  /\ inbox' = Deliver(inbox, Conns, Ev("error", 0, NoUser, NoLast))
  /\ last' = Event("socketError", NoUser, 0, <<>>, outcome)
  /\ UNCHANGED <<chats, now, procs, conns, activeUsers, rooms>>

\* socket.emit('error', {message}): the handler answers its own socket
SocketError(k, outcome) ==
  /\ inbox' = Deliver(inbox, {k}, Ev("error", 0, NoUser, NoLast))
  /\ last' = Event("socketError", NoUser, 0, <<>>, outcome)
  /\ UNCHANGED <<chats, now, procs, conns, activeUsers, rooms>>

\* the store applies the update of save(); a version mismatch is a
\* VersionError.  What follows the await in the handler is part of the step:
\* mark_read and share_location emit at once, send_message still populates,
\* a rejected save of a socket handler ends in its catch.
Save(p) ==
  /\ procs[p].pc = "save"
  /\ LET r == procs[p]
         db == chats[r.cid]
     IN IF r.d.where /\ db.v # r.d.v
        THEN /\ chats' = chats
             /\ last' = Event(r.op, r.user, r.cid, <<>>, "versionError")
             /\ procs' = [procs EXCEPT ![p] = Idle]
             /\ inbox' = IF r.via = "http" THEN inbox
                         ELSE Deliver(inbox, {r.conn}, Ev("error", 0, NoUser, NoLast))
        ELSE /\ chats' = [chats EXCEPT ![r.cid] = ApplyDelta(db, r.d)]
             /\ last' = Event(r.op, r.user, r.cid, <<>>,
                              IF r.d.push # <<>> THEN "appended" ELSE "saved")
             /\ procs' = [procs EXCEPT ![p] =
                            IF r.via = "send_message"
                            THEN [pc |-> "emit", conn |-> r.conn, user |-> r.user,
                                  cid |-> r.cid, saved |-> TRUE,
                                  content |-> r.d.push[1].content,
                                  message |-> MsgView(r.d.push[1])]
                            ELSE Idle]
             /\ inbox' = IF r.via = "mark_read"
                         THEN Deliver(inbox, RoomOf(r.cid) \ {r.conn},
                                      Ev("messages_read", r.cid, r.user, NoLast))
                         ELSE IF r.via = "share_location"
                         THEN Deliver(inbox, RoomOf(r.cid),
                                      Ev("location_shared", r.cid, r.user, NoLast))
                         ELSE inbox
  /\ UNCHANGED <<now, reqs, conns, activeUsers, rooms>>

\* ------------------------------------------------- chatController
\* messageValidation (body('content').trim().isLength({min: 1, max: 1000}))
\* and sendMessage, up to the call of addMessage
HttpSendOutcome(coll, u, cid, body, t) ==
  LET content == Trim(body)
  IN IF Len(content) < 1 \/ Len(content) > MaxContentLen THEN "invalid"
     ELSE IF Len(Trim(content)) = 0 THEN "invalid"
     ELSE IF cid > Len(coll) THEN "notfound"
     ELSE IF ~IsParticipant(coll[cid], u) THEN "forbidden"
     ELSE IF BlockedFor(coll[cid], u) THEN "blocked"
     ELSE IF RecentDuplicate(coll[cid], u, Trim(content), t) # {} THEN "duplicate"
     ELSE "addMessage"

\* addMessage: return Promise.resolve(this) on a recent duplicate, else push
AddMessageOutcome(chat, sender, content, t) ==
  IF RecentDuplicate(chat, sender, content, t) # {} THEN "duplicate" ELSE "save"

\* POST /api/chat/:id/messages
HttpSend(p, u, cid, body) ==
  /\ Accept(p)
  /\ LET o == HttpSendOutcome(chats, u, cid, body, now)
         content == Trim(Trim(body))
     IN IF o # "addMessage"
        THEN Reply(p, "httpSend", u, cid, content, o)
        ELSE IF AddMessageOutcome(chats[cid], u, content, now) = "duplicate"
        THEN Reply(p, "httpSend", u, cid, content, "duplicate")
        ELSE Pending(p, "send", u, cid, chats[cid], AddMessage(chats[cid], u, content, now))

\* markAsRead (controller), up to chat.markAsRead; getChat has the same checks
ReadOutcome(coll, u, cid) ==
  IF cid > Len(coll) THEN "notfound"
  ELSE IF ~IsParticipant(coll[cid], u) THEN "forbidden"
  ELSE "markAsRead"

\* PUT /api/chat/:id/read
HttpMarkAsRead(p, u, cid, touch) ==
  /\ Accept(p)
  /\ LET o == ReadOutcome(chats, u, cid)
     IN IF o # "markAsRead"
        THEN Reply(p, "markRead", u, cid, <<>>, o)
        ELSE Pending(p, "markRead", u, cid, chats[cid], MarkAsRead(chats[cid], u, touch))

\* GET /api/chat/:id: the listing, then await chat.markAsRead(req.user._id)
GetChat(p, u, cid, touch) ==
  /\ Accept(p)
  /\ LET o == ReadOutcome(chats, u, cid)
     IN IF o # "markAsRead"
        THEN Reply(p, "markRead", u, cid, <<>>, o)
        ELSE Pending(p, "markRead", u, cid, chats[cid], MarkAsRead(chats[cid], u, touch))

\* toggleBlock (controller), up to chat.toggleBlock
BlockOutcome(coll, u, cid) ==
  IF cid > Len(coll) THEN "notfound"
  ELSE IF ~IsParticipant(coll[cid], u) THEN "forbidden"
  ELSE "toggleBlock"

\* PUT /api/chat/:id/block
HttpToggleBlock(p, u, cid) ==
  /\ Accept(p)
  /\ LET o == BlockOutcome(chats, u, cid)
     IN IF o # "toggleBlock"
        THEN Reply(p, "block", u, cid, <<>>, o)
        ELSE Pending(p, "block", u, cid, chats[cid], ToggleBlock(chats[cid], u))

\* deleteMessage, up to the soft delete; the message id is its position
DeleteOutcome(coll, u, cid, i) ==
  IF cid > Len(coll) THEN "notfound"
  ELSE IF i > Len(coll[cid].messages) THEN "nomessage"
  ELSE IF coll[cid].messages[i].sender # u THEN "forbidden"
  ELSE "softDelete"

\* DELETE /api/chat/:id/messages/:messageId
DeleteMessage(p, u, cid, i) ==
  /\ Accept(p)
  /\ LET o == DeleteOutcome(chats, u, cid, i)
     IN IF o # "softDelete"
        THEN Reply(p, "delete", u, cid, <<>>, o)
        ELSE Pending(p, "delete", u, cid, chats[cid], SoftDelete(chats[cid], i, now))

\* ------------------------------------------------- socketHandlers
\* a request that is not a handler of the chat store
Count ==
  /\ reqs < MaxReqs
  /\ reqs' = reqs + 1

\* handshake credentials: no token, a token jwt.verify rejects, or a token
\* for a user id; id NumUsers + 1 is the id of no stored user
Creds ==
  { [token |-> "none", id |-> NoUser], [token |-> "bad", id |-> NoUser] }
    \cup { [token |-> "jwt", id |-> u] : u \in 1..(NumUsers + 1) }

\* Authenticate without the test of the user that the token names
AuthenticateAnyId(cred) ==
  IF cred.token = "none" THEN "Authentication error"
  ELSE IF cred.token = "bad" THEN "Authentication error"
  ELSE "ok"

\* io.use(async (socket, next) => ...)
Authenticate(cred) ==
  IF cred.token = "none" THEN "Authentication error"
  ELSE IF cred.token = "bad" THEN "Authentication error"
  ELSE IF cred.id \notin Users THEN "User not found"
  ELSE "ok"

\* the handshake and io.on('connection'): activeUsers.set, the personal room,
\* the user_online broadcast and the online_users event
Connect(k, cred) ==
  /\ Count
  /\ conns[k].state = "new"
  /\ IF Authenticate(cred) # "ok"
     THEN /\ conns' = [conns EXCEPT ![k].state = "rejected"]
          /\ UNCHANGED <<activeUsers, rooms, inbox>>
     ELSE /\ conns' = [conns EXCEPT ![k] = [state |-> "online", user |-> cred.id]]
          /\ activeUsers' = MapSet(activeUsers, cred.id, k)
          /\ inbox' = [Deliver(inbox, Conns \ {k}, Ev("user_online", 0, cred.id, NoLast))
                         EXCEPT ![k] = Append(@, Ev("online_users", 0, NoUser, NoLast))]
          /\ UNCHANGED rooms
  /\ last' = Event("connect", NoUser, 0, <<>>, Authenticate(cred))
  /\ UNCHANGED <<chats, now, procs>>

\* socket.on('disconnect'); the socket leaves its rooms
Disconnect(k) ==
  /\ Count
  /\ Online(k)
  /\ conns' = [conns EXCEPT ![k].state = "closed"]
  /\ activeUsers' = [u \in (DOMAIN activeUsers) \ {conns[k].user} |-> activeUsers[u]]
  /\ rooms' = { r \in rooms : r[1] # k }
  /\ inbox' = Deliver(inbox, Conns \ {k}, Ev("user_offline", 0, conns[k].user, NoLast))
  /\ last' = Event("disconnect", NoUser, 0, <<>>, "ok")
  /\ UNCHANGED <<chats, now, procs>>

\* JoinOutcome without the participant check
JoinOutcomeOfAnyUser(coll, u, cid) ==
  IF cid > Len(coll) THEN "notfound"
  ELSE "join"

\* join_chat, up to socket.join
JoinOutcome(coll, u, cid) ==
  IF cid > Len(coll) THEN "notfound"
  ELSE IF ~IsParticipant(coll[cid], u) THEN "notAuthorizedToJoin"
  ELSE "join"

\* socket.on('join_chat')
JoinChat(k, cid) ==
  /\ Count
  /\ Online(k)
  /\ LET o == JoinOutcome(chats, conns[k].user, cid)
     IN IF o # "join"
        THEN SocketError(k, o)
        ELSE /\ rooms' = rooms \cup {<<k, cid>>}
             /\ inbox' = Deliver(inbox, {k}, Ev("joined_chat", cid, NoUser, NoLast))
             /\ last' = Event("join", NoUser, 0, <<>>, o)
             /\ UNCHANGED <<chats, now, procs, conns, activeUsers>>

\* socket.on('leave_chat')
LeaveChat(k, cid) ==
  /\ Count
  /\ Online(k)
  /\ rooms' = rooms \ {<<k, cid>>}
  /\ inbox' = Deliver(inbox, {k}, Ev("left_chat", cid, NoUser, NoLast))
  /\ last' = Event("leave", NoUser, 0, <<>>, "ok")
  /\ UNCHANGED <<chats, now, procs, conns, activeUsers>>

\* socket.on('typing_start')
TypingStart(k, cid) ==
  /\ Count
  /\ Online(k)
  /\ inbox' = Deliver(inbox, RoomOf(cid) \ {k}, Ev("user_typing", cid, conns[k].user, NoLast))
  /\ last' = Event("typing", NoUser, 0, <<>>, "ok")
  /\ UNCHANGED <<chats, now, procs, conns, activeUsers, rooms>>

\* socket.on('typing_stop')
TypingStop(k, cid) ==
  /\ Count
  /\ Online(k)
  /\ inbox' = Deliver(inbox, RoomOf(cid) \ {k},
                      Ev("user_stopped_typing", cid, conns[k].user, NoLast))
  /\ last' = Event("typing", NoUser, 0, <<>>, "ok")
  /\ UNCHANGED <<chats, now, procs, conns, activeUsers, rooms>>

\* socket.on('send_message'), up to the call of addMessage
SocketSendOutcome(coll, u, cid) ==
  IF cid > Len(coll) THEN "notfound"
  ELSE IF ~IsParticipant(coll[cid], u) THEN "forbidden"
  ELSE IF BlockedFor(coll[cid], u) THEN "blocked"
  ELSE "addMessage"

\* the validators of messages.content that save() runs: required, maxlength
SchemaValid(content) == Len(content) >= 1 /\ Len(content) <= MaxContentLen

\* chat.messages[chat.messages.length - 1] of the handler's copy
LastMessageView(chat) ==
  IF Len(chat.messages) = 0 THEN NoLast ELSE MsgView(chat.messages[Len(chat.messages)])

\* socket.on('send_message'): on a recent duplicate addMessage resolves without
\* a write and the handler goes on to populate and emit
SocketSend(p, k, cid, content) ==
  /\ Accept(p)
  /\ Online(k)
  /\ LET u == conns[k].user
         o == SocketSendOutcome(chats, u, cid)
     IN IF o # "addMessage"
        THEN SocketError(k, o)
        ELSE IF AddMessageOutcome(chats[cid], u, content, now) = "duplicate"
        THEN /\ procs' = [procs EXCEPT ![p] =
                            [pc |-> "emit", conn |-> k, user |-> u, cid |-> cid,
                             saved |-> FALSE, content |-> content,
                             message |-> LastMessageView(chats[cid])]]
             /\ last' = Event("socketSend", u, cid, content, "duplicate")
             /\ UNCHANGED <<chats, now>>
             /\ UNCHANGED gateway
        ELSE IF ~SchemaValid(content)
        THEN SocketError(k, "invalid")
        ELSE PendingVia(p, "send", "send_message", k, u, cid, chats[cid],
                        AddMessage(chats[cid], u, content, now))

\* send_message after populate: io.to(`chat_${chatId}`).emit('new_message')
Emit(p) ==
  /\ procs[p].pc = "emit"
  /\ inbox' = Deliver(inbox, RoomOf(procs[p].cid),
                      Ev("new_message", procs[p].cid, procs[p].user, procs[p].message))
  /\ procs' = [procs EXCEPT ![p] = Idle]
  /\ last' = Event("emit", NoUser, 0, <<>>, "ok")
  /\ UNCHANGED <<chats, now, reqs, conns, activeUsers, rooms>>

\* socket.on('mark_read')
SocketMarkRead(p, k, cid, touch) ==
  /\ Accept(p)
  /\ Online(k)
  /\ IF cid > Len(chats)
     THEN SocketError(k, "notfound")
     ELSE PendingVia(p, "markRead", "mark_read", k, conns[k].user, cid, chats[cid],
                     MarkAsRead(chats[cid], conns[k].user, touch))

\* socket.on('share_location'): on a recent duplicate addMessage resolves
\* without a write and the handler emits location_shared
ShareLocation(p, k, cid) ==
  /\ Accept(p)
  /\ Online(k)
  /\ LET u == conns[k].user
     IN IF cid > Len(chats)
        THEN SocketError(k, "notfound")
        ELSE IF AddMessageOutcome(chats[cid], u, SharedLocation, now) = "duplicate"
        THEN /\ inbox' = Deliver(inbox, RoomOf(cid), Ev("location_shared", cid, u, NoLast))
             /\ last' = Event("shareLocation", u, cid, SharedLocation, "duplicate")
             /\ UNCHANGED <<chats, now, procs, conns, activeUsers, rooms>>
        ELSE PendingVia(p, "send", "share_location", k, u, cid, chats[cid],
                        AddMessage(chats[cid], u, SharedLocation, now))

\* getOnlineUsersCount
GetOnlineUsersCount == Cardinality(DOMAIN activeUsers)

\* isUserOnline
IsUserOnline(u) == u \in DOMAIN activeUsers

\* ------------------------------------------------------------- time
Tick ==
  /\ now + TickMs <= MaxTicks * TickMs
  /\ now' = now + TickMs
  /\ last' = Event("tick", NoUser, 0, <<>>, "ok")
  /\ UNCHANGED <<chats, procs, reqs>>
  /\ UNCHANGED gateway

\* The collection outlives the server.  It starts empty, or holding the
\* conversation that an earlier findOrCreateDirectChat(1, 2) stored, or that
\* conversation after user 1 has sent "a" with addMessage.
FreshChat == PreSave(NewChat(SortedIds(1, 2)), NewChat(SortedIds(1, 2)), TRUE)

SentChat ==
  LET doc == AddMessage(FreshChat, 1, <<"a">>, 0)
  IN ApplyDelta(FreshChat, Delta(FreshChat, PreSave(FreshChat, doc, FALSE)))

InitialChats == { <<>>, <<FreshChat>>, <<SentChat>> }

EmptyInbox == [k \in Conns |-> <<>>]

\* every user has one socket open, in no chat room
OneSocketEach ==
  [k \in Conns |-> IF k \in Users THEN [state |-> "online", user |-> k] ELSE NewConn]

Init ==
  /\ chats \in InitialChats
  /\ now = 0
  /\ procs = [p \in Procs |-> Idle]
  /\ conns = OneSocketEach
  /\ activeUsers = [u \in Users \cap Conns |-> u]
  /\ rooms = {}
  /\ inbox = EmptyInbox
  /\ last = Event("init", NoUser, 0, <<>>, "ok")
  /\ reqs = 0

Next ==
  \/ \E p \in Procs, a \in Users, b \in Users : FocCall(p, a, b)
  \/ \E p \in Procs : FocInsert(p)
  \/ \E p \in Procs : FocRetry(p)
  \/ \E p \in Procs : FocRespond(p)
  \/ \E p \in Procs : Save(p)
  \/ \E p \in Procs : Emit(p)
  \/ \E p \in Procs, u \in Users, cid \in 1..(Len(chats) + 1), body \in Contents :
        HttpSend(p, u, cid, body)
  \/ \E p \in Procs, k \in Conns, cid \in 1..(Len(chats) + 1), content \in SocketContents :
        SocketSend(p, k, cid, content)
  \/ \E p \in Procs, k \in Conns, cid \in 1..(Len(chats) + 1) : ShareLocation(p, k, cid)
  \/ \E p \in Procs, u \in Users, cid \in 1..(Len(chats) + 1), touch \in BOOLEAN :
        HttpMarkAsRead(p, u, cid, touch)
  \/ \E p \in Procs, u \in Users, cid \in 1..(Len(chats) + 1), touch \in BOOLEAN :
        GetChat(p, u, cid, touch)
  \/ \E p \in Procs, k \in Conns, cid \in 1..(Len(chats) + 1), touch \in BOOLEAN :
        SocketMarkRead(p, k, cid, touch)
  \/ \E p \in Procs, u \in Users, cid \in 1..(Len(chats) + 1) : HttpToggleBlock(p, u, cid)
  \/ \E p \in Procs, u \in Users, cid \in 1..(Len(chats) + 1), i \in 1..MaxReqs :
        DeleteMessage(p, u, cid, i)
  \/ Tick

Spec == Init /\ [][Next]_vars

\* ------------------------------------------------- the gateway alone
\* SentChat after user 1 has blocked it with toggleBlock
BlockedChat ==
  ApplyDelta(SentChat, Delta(SentChat, PreSave(SentChat, ToggleBlock(SentChat, 1), FALSE)))

GatewayChats == { <<SentChat>>, <<BlockedChat>> }

OnlineConn(u) == [state |-> "online", user |-> u]

\* The sockets at the start: none yet; or users 1 and 2 each with one socket
\* that has joined chat 1; or user 1 with two sockets, the first of them in
\* the room of chat 1, and user 2 with one socket in that room.
GatewaySeeds ==
  { [ conns       |-> [k \in Conns |-> NewConn],
      activeUsers |-> << >>,
      rooms       |-> {} ],
    [ conns       |-> [k \in Conns |-> IF k <= 2 THEN OnlineConn(k) ELSE NewConn],
      activeUsers |-> [u \in {1, 2} |-> u],
      rooms       |-> {<<1, 1>>, <<2, 1>>} ],
    [ conns       |-> [k \in Conns |-> IF k <= 2 THEN OnlineConn(1)
                                       ELSE IF k = 3 THEN OnlineConn(2) ELSE NewConn],
      activeUsers |-> [u \in {1, 2} |-> u + 1],
      rooms       |-> {<<1, 1>>, <<3, 1>>} ] }

GatewayInit ==
  /\ chats \in GatewayChats
  /\ now = 0
  /\ procs = [p \in Procs |-> Idle]
  /\ \E g \in GatewaySeeds :
       /\ conns = g.conns
       /\ activeUsers = g.activeUsers
       /\ rooms = g.rooms
  /\ inbox = EmptyInbox
  /\ last = Event("init", NoUser, 0, <<>>, "ok")
  /\ reqs = 0

GatewayNext ==
  \/ \E k \in Conns, cred \in Creds : Connect(k, cred)
  \/ \E k \in Conns : Disconnect(k)
  \/ \E k \in Conns, cid \in 1..(Len(chats) + 1) : JoinChat(k, cid)
  \/ \E k \in Conns, cid \in 1..(Len(chats) + 1) : LeaveChat(k, cid)
  \/ \E k \in Conns, cid \in 1..(Len(chats) + 1) : TypingStart(k, cid)
  \/ \E k \in Conns, cid \in 1..(Len(chats) + 1) : TypingStop(k, cid)
  \/ \E p \in Procs, k \in Conns, cid \in 1..(Len(chats) + 1), content \in SocketContents :
        SocketSend(p, k, cid, content)
  \/ \E p \in Procs, k \in Conns, cid \in 1..(Len(chats) + 1), touch \in BOOLEAN :
        SocketMarkRead(p, k, cid, touch)
  \/ \E p \in Procs, k \in Conns, cid \in 1..(Len(chats) + 1) : ShareLocation(p, k, cid)
  \/ \E p \in Procs : Save(p)
  \/ \E p \in Procs : Emit(p)
  \/ Tick

GatewaySpec == GatewayInit /\ [][GatewayNext]_vars

\* ------------------------------------------------------------- claims
ChatIds == 1..Len(chats)

SamePair(r, q) == SortedIds(r.a, r.b) = SortedIds(q.a, q.b)

\* the messages of chat that user u has not read: not deleted, not sent by u,
\* u not in readBy
UnreadMessages(chat, u) ==
  { i \in NonDeleted(chat.messages) :
      chat.messages[i].sender # u /\ u \notin chat.messages[i].readBy }

\* a step in which the store applies the save() of handler p
Saves(p, op) ==
  /\ procs[p].pc = "save"
  /\ procs[p].op = op
  /\ procs'[p].pc # "save"
  /\ last'.outcome # "versionError"

\* C1: any two finished calls of findOrCreateDirectChat for the same pair of
\* users, however their find and insert steps interleaved, both returned a
\* conversation (none threw) and returned the same conversation id.
C1_ConcurrentCallsSameChat ==
  \A p \in Procs, q \in Procs :
    (p # q /\ procs[p].pc = "foc_done" /\ procs[q].pc = "foc_done"
       /\ SamePair(procs[p], procs[q]))
    => (procs[p].res # 0 /\ procs[q].res # 0 /\ procs[p].res = procs[q].res)

\* C2: in every reachable state at most one conversation with type direct and
\* isActive true exists for any unordered pair of users.
C2_OneActiveDirectPerPair ==
  \A i \in ChatIds, j \in ChatIds :
    (i # j /\ chats[i].type = "direct" /\ chats[i].isActive
           /\ chats[j].type = "direct" /\ chats[j].isActive)
    => Elems(chats[i].participants) # Elems(chats[j].participants)

\* C2 witness: a second call for a pair lost the insert race (E11000) while the
\* pair's conversation is stored once.
C2_Witness ==
  \E p \in Procs :
    /\ procs[p].pc = "foc_retry"
    /\ Cardinality(FindDirect(chats, procs[p].ids)) = 1

\* C3: for every conversation and every participant u, the stored unread count
\* of u (0 when absent) is the number of non-deleted messages not sent by u
\* whose readBy does not contain u.
C3_UnreadCountIsUnreadMessages ==
  \A cid \in ChatIds, u \in Users :
    IsParticipant(chats[cid], u)
    => GetUnreadCount(chats[cid], u) = Cardinality(UnreadMessages(chats[cid], u))

\* C4: the save of a send that appends a message raises the stored unread count
\* of every participant other than the sender by exactly 1, and a send that is
\* answered without an append (rejected, duplicate) changes no unread count.
C4_AppendStep ==
  \A p \in Procs :
    (Saves(p, "send") /\ procs[p].d.push # <<>>)
    => \A u \in Users :
         (IsParticipant(chats[procs[p].cid], u) /\ u # procs[p].user)
         => GetUnreadCount(chats'[procs[p].cid], u)
              = GetUnreadCount(chats[procs[p].cid], u) + 1

C4_NoAppendStep ==
  last'.outcome \in {"invalid", "notfound", "forbidden", "blocked", "duplicate"}
  => \A cid \in ChatIds : chats'[cid].unreadCount = chats[cid].unreadCount

C4_AppendAddsOneUnread == [][C4_AppendStep /\ C4_NoAppendStep]_vars

\* C5, as the claim states it: right after the save of a send by S that appends
\* a message, the stored unread count of S is 0.
C5_SenderUnreadZero ==
  [][\A p \in Procs :
       (Saves(p, "send") /\ procs[p].d.push # <<>>)
       => GetUnreadCount(chats'[procs[p].cid], procs[p].user) = 0]_vars

\* C5, amended: the save of a send by S that appends a message leaves the
\* stored unread count of S as it was (0 only if it was 0 before).
C5_SenderUnreadUnchanged ==
  [][\A p \in Procs :
       (Saves(p, "send") /\ procs[p].d.push # <<>>)
       => GetUnreadCount(chats'[procs[p].cid], procs[p].user)
            = GetUnreadCount(chats[procs[p].cid], procs[p].user)]_vars

\* C5 witness: a sender whose unread count was not 0 has appended a message,
\* and the count is still not 0.
C5_Witness ==
  /\ last.op = "send" /\ last.outcome = "appended"
  /\ GetUnreadCount(chats[last.cid], last.user) > 0
  /\ \E i \in 1..Len(chats[last.cid].messages) :
       chats[last.cid].messages[i].sender = last.user

\* C6: after the save of a markAsRead by participant R (mark-read request,
\* mark_read event or getChat), the stored unread count of R is 0 and every
\* message not sent by R has R in readBy.
C6_MarkAsReadClears ==
  [][\A p \in Procs :
       (Saves(p, "markRead") /\ IsParticipant(chats[procs[p].cid], procs[p].user))
       => LET c == chats'[procs[p].cid]
              r == procs[p].user
          IN /\ GetUnreadCount(c, r) = 0
             /\ \A i \in 1..Len(c.messages) :
                  c.messages[i].sender # r => r \in c.messages[i].readBy]_vars

\* markAsRead(u) run alone against the stored document: load, change, save
MarkAsReadAlone(chat, u, touch) ==
  ApplyDelta(chat, Delta(chat, PreSave(chat, MarkAsRead(chat, u, touch), FALSE)))

ReadState(chat) ==
  <<chat.unreadCount, [i \in 1..Len(chat.messages) |-> chat.messages[i].readBy]>>

\* C7: for every stored conversation and participant U, markAsRead(U) performed
\* twice in a row leaves the unread counts and readBy sets that performing it
\* once leaves.
C7_MarkAsReadIdempotent ==
  \A cid \in ChatIds, u \in Users, t1 \in BOOLEAN, t2 \in BOOLEAN :
    IsParticipant(chats[cid], u)
    => ReadState(MarkAsReadAlone(MarkAsReadAlone(chats[cid], u, t1), u, t2))
         = ReadState(MarkAsReadAlone(chats[cid], u, t1))

LastNonDeleted(chat) ==
  CHOOSE i \in NonDeleted(chat.messages) : \A j \in NonDeleted(chat.messages) : j <= i

\* C8: a conversation with at least one non-deleted message has lastMessage
\* (content, sender, timestamp) equal to its last non-deleted message.
C8_LastMessageIsLastNonDeleted ==
  \A cid \in ChatIds :
    NonDeleted(chats[cid].messages) # {}
    => LET m == chats[cid].messages[LastNonDeleted(chats[cid])]
       IN chats[cid].lastMessage =
            [content |-> m.content, sender |-> m.sender, timestamp |-> m.createdAt]

\* a stored, non-deleted message of sender u with the trimmed content of c that
\* was created less than DedupWindowMs before t
StoredTwin(chat, u, c, t) ==
  \E i \in NonDeleted(chat.messages) :
    /\ chat.messages[i].sender = u
    /\ Trim(chat.messages[i].content) = Trim(c)
    /\ t - chat.messages[i].createdAt < DedupWindowMs

\* C9: a send request (HTTP or send_message) that starts when the conversation
\* holds a non-deleted message of the same sender with the same trimmed
\* content, created less than 5 seconds before, stores no second message and
\* leaves the conversation as it is.
C9_RecentTwinIsNotStored ==
  [][\A p \in Procs :
       (procs[p] = Idle /\ procs'[p].pc = "save" /\ procs'[p].op = "send")
       => ~StoredTwin(chats[procs'[p].cid], procs'[p].user,
                      procs'[p].d.push[1].content, now)]_vars

\* C10: a send is answered as a duplicate only when the conversation holds a
\* non-deleted message of the same sender with the same trimmed content that
\* is not more than 5 seconds old: sends of different content, after the
\* window, after a soft delete of the earlier message, or matching only a
\* message of another sender, are not deduplicated.
C10_OnlyRecentTwinsDeduplicated ==
  \A cid \in ChatIds, u \in Users, c \in Contents :
    LET twin == \E i \in NonDeleted(chats[cid].messages) :
                  /\ chats[cid].messages[i].sender = u
                  /\ Trim(chats[cid].messages[i].content) = Trim(c)
                  /\ now - chats[cid].messages[i].createdAt <= DedupWindowMs
    IN /\ HttpSendOutcome(chats, u, cid, c, now) = "duplicate" => twin
       /\ (HttpSendOutcome(chats, u, cid, c, now) = "addMessage"
             /\ AddMessageOutcome(chats[cid], u, Trim(Trim(c)), now) = "duplicate") => twin
       /\ (SocketSendOutcome(chats, u, cid) = "addMessage"
             /\ AddMessageOutcome(chats[cid], u, c, now) = "duplicate") => twin
       /\ AddMessageOutcome(chats[cid], u, SharedLocation, now) = "duplicate"
            => StoredTwin(chats[cid], u, SharedLocation, now)

\* C10 witness: a sender's second message with the same trimmed content was
\* appended, the first being deleted or older than the window.
C10_Witness ==
  /\ last.op = "send" /\ last.outcome = "appended"
  /\ LET ms == chats[last.cid].messages
     IN \E i \in 1..Len(ms), j \in 1..Len(ms) :
          /\ i < j
          /\ ms[i].sender = ms[j].sender
          /\ Trim(ms[i].content) = Trim(ms[j].content)
          /\ (ms[i].isDeleted \/ ms[j].createdAt - ms[i].createdAt > DedupWindowMs)


\* a handler of a send (sendMessage, send_message, share_location) has loaded
\* the conversation and goes on to append
StartsAppend(p) ==
  /\ procs[p] = Idle
  /\ procs'[p].pc = "save"
  /\ procs'[p].op = "send"

\* C11: while a conversation is blocked by participant X, no send request of
\* another participant Y (HTTP send, send_message, share_location) goes on to
\* append a message, and the send requests of X are not answered as blocked.
C11_BlockedStopsOtherParticipant ==
  [][/\ \A p \in Procs :
          StartsAppend(p)
          => LET c == chats[procs'[p].cid]
             IN ~(c.isBlocked /\ IsParticipant(c, procs'[p].user)
                              /\ c.blockedBy # procs'[p].user)
     /\ \A cid \in ChatIds, b \in Contents :
          chats[cid].isBlocked /\ IsParticipant(chats[cid], chats[cid].blockedBy)
          => /\ HttpSendOutcome(chats, chats[cid].blockedBy, cid, b, now) # "blocked"
             /\ SocketSendOutcome(chats, chats[cid].blockedBy, cid) # "blocked"]_vars

\* C12: in every reachable state the sender of every stored message is a
\* participant of the conversation that holds it.
C12_SendersAreParticipants ==
  \A cid \in ChatIds :
    \A i \in 1..Len(chats[cid].messages) :
      IsParticipant(chats[cid], chats[cid].messages[i].sender)

\* C13: the save of every send appends the handler's message to the stored
\* sequence as it is at that moment: when two senders' handlers both loaded
\* the conversation before either saved, the second save keeps the message of
\* the first and every earlier message, unchanged and at its position.
C13_ConcurrentAppendsKept ==
  [][\A p \in Procs :
       (procs[p].pc = "save" /\ procs[p].op = "send" /\ procs'[p] # procs[p])
       => /\ Len(procs[p].d.push) = 1
          /\ chats'[procs[p].cid].messages
               = chats[procs[p].cid].messages \o procs[p].d.push]_vars

\* C13 witness: two messages of different senders are stored, the later in
\* the sequence created before the earlier one: both handlers had loaded the
\* conversation before either saved.
C13_Witness ==
  /\ last.op = "send" /\ last.outcome = "appended"
  /\ LET ms == chats[last.cid].messages
     IN \E i \in 1..Len(ms), j \in 1..Len(ms) :
          /\ i < j
          /\ ms[i].sender # ms[j].sender
          /\ ms[i].createdAt > ms[j].createdAt

\* the positions in inbox[k] of the new_message events for conversation cid
NewMessageEvents(k, cid) ==
  { x \in 1..Len(inbox[k]) :
      inbox[k][x].type = "new_message" /\ inbox[k][x].cid = cid }

\* C14: for any two stored messages M1 before M2 of a conversation,
\* M1.createdAt <= M2.createdAt, and no connection has been sent the
\* new_message event of M2 before the new_message event of M1.
C14_FanoutFollowsStoredOrder ==
  \A cid \in ChatIds :
    LET ms == chats[cid].messages
    IN \A i \in 1..Len(ms), j \in 1..Len(ms) :
         i < j
         => /\ ms[i].createdAt <= ms[j].createdAt
            /\ \A k \in Conns :
                 \A x \in NewMessageEvents(k, cid), y \in NewMessageEvents(k, cid) :
                   (/\ inbox[k][x].message = MsgView(ms[i])
                    /\ inbox[k][y].message = MsgView(ms[j])
                    /\ MsgView(ms[i]) # MsgView(ms[j]))
                   => x < y

\* C15: when a send_message handler whose message was saved emits, the
\* new_message event of that message is sent to every connection in the
\* conversation's room and to every connection in the sender's personal room.
C15_FanoutToRoomAndSender ==
  [][\A p \in Procs :
       (procs[p].pc = "emit" /\ procs[p].saved /\ procs'[p] = Idle)
       => \A k \in RoomOf(procs[p].cid) \cup PersonalRoom(procs[p].user) :
            Online(k)
            => inbox'[k] = Append(inbox[k],
                                  Ev("new_message", procs[p].cid, procs[p].user,
                                     procs[p].message))]_vars

\* the request of socket k has failed: its socket alone is sent an error
\* event, the store and the sockets stay as they are
FailedFor(k) ==
  /\ inbox' = [inbox EXCEPT ![k] = Append(@, Ev("error", 0, NoUser, NoLast))]
  /\ chats' = chats
  /\ conns' = conns /\ Online(k)
  /\ rooms' = rooms /\ activeUsers' = activeUsers

\* C16: a join_chat, send_message, mark_read or share_location request that
\* fails because the conversation is missing, the caller is not a participant,
\* the conversation is blocked against the caller or the content is invalid
\* sends an error event to the requesting connection only, emits nothing to
\* any other connection, leaves the store unchanged and the connection online.
C16_FailureToRequesterOnly ==
  [][\A k \in Conns, cid \in 1..(Len(chats) + 1) :
       /\ (JoinChat(k, cid) /\ JoinOutcome(chats, conns[k].user, cid) # "join")
            => FailedFor(k)
       /\ \A p \in Procs :
            /\ \A content \in SocketContents :
                 (/\ SocketSend(p, k, cid, content)
                  /\ \/ SocketSendOutcome(chats, conns[k].user, cid) # "addMessage"
                     \/ /\ AddMessageOutcome(chats[cid], conns[k].user, content, now) = "save"
                        /\ ~SchemaValid(content))
                 => FailedFor(k)
            /\ \A touch \in BOOLEAN :
                 (SocketMarkRead(p, k, cid, touch) /\ cid > Len(chats)) => FailedFor(k)
            /\ (ShareLocation(p, k, cid) /\ cid > Len(chats)) => FailedFor(k)]_vars

\* C16 witness: a request for a conversation blocked against the caller was
\* refused with an error to its socket, while another socket is in the
\* conversation's room and has been sent nothing.
C16_Witness ==
  /\ last.op = "socketError" /\ last.outcome = "blocked"
  /\ \E k \in Conns, k2 \in Conns :
       /\ k # k2
       /\ inbox[k] = <<Ev("error", 0, NoUser, NoLast)>>
       /\ k2 \in RoomOf(1) /\ Online(k2) /\ inbox[k2] = <<>>

\* a credential that is missing, invalid, or names no stored user
BadCred(cred) == cred.token = "none" \/ cred.token = "bad" \/ cred.id \notin Users

\* a connection refused at the handshake is in no presence entry and in no
\* room, has been sent nothing, and has no handler in flight
RefusedInert ==
  \A k \in Conns :
    conns[k].state = "rejected"
    => /\ \A u \in DOMAIN activeUsers : activeUsers[u] # k
       /\ \A r \in rooms : r[1] # k
       /\ inbox[k] = <<>>
       /\ \A p \in Procs :
            procs[p].pc \in {"save", "emit"} => procs[p].conn # k

\* C17: a handshake whose credential is missing, invalid or names no user
\* refuses the connection without touching the presence map, the rooms or any
\* socket's events (no user_online); a refused connection stays refused, is
\* never registered or joined, and none of its requests is handled.
C17_BadHandshakeNeverOnline ==
  [][/\ \A k \in Conns, cred \in Creds :
          (Connect(k, cred) /\ BadCred(cred))
          => /\ conns'[k].state = "rejected"
             /\ activeUsers' = activeUsers /\ rooms' = rooms /\ inbox' = inbox
     /\ \A k \in Conns : conns[k].state = "rejected" => conns'[k].state = "rejected"
     /\ RefusedInert']_vars

\* C17 witness: a handshake with a token of no stored user was refused while
\* another socket is online.
C17_Witness ==
  /\ last.op = "connect" /\ last.outcome = "User not found"
  /\ \E k \in Conns, k2 \in Conns : conns[k].state = "rejected" /\ Online(k2)

\* the events of a conversation
ChatEvents ==
  {"new_message", "messages_read", "user_typing", "user_stopped_typing", "location_shared"}

\* C18: in every reachable state every connection in the room of a
\* conversation is a connection of a participant of that conversation,
\* and every conversation event a connection has been sent is of a
\* conversation its user participates in.
C18_RoomsHoldParticipants ==
  /\ \A r \in rooms :
       /\ r[2] \in ChatIds
       /\ IsParticipant(chats[r[2]], conns[r[1]].user)
  /\ \A k \in Conns :
       \A x \in 1..Len(inbox[k]) :
         inbox[k][x].type \in ChatEvents
         => /\ inbox[k][x].cid \in ChatIds
            /\ IsParticipant(chats[inbox[k][x].cid], conns[k].user)

\* C18 witness: the join_chat of a non-participant was refused, and a socket
\* of a participant is in the room.
C18_Witness ==
  /\ last.op = "socketError" /\ last.outcome = "notAuthorizedToJoin"
  /\ \E k \in Conns : ~IsParticipant(chats[1], conns[k].user) /\ Online(k)
                        /\ <<k, 1>> \notin rooms
  /\ RoomOf(1) # {}

\* the users in the readBy sets and among the unread-count keys of chat
ReadersOf(chat) ==
  (DOMAIN chat.unreadCount)
    \cup UNION { chat.messages[i].readBy : i \in 1..Len(chat.messages) }

\* C19: a mark_read request of a user who is not a participant never goes on
\* to save, and the users in the readBy sets and among the unread-count keys
\* of a conversation are participants of it.
C19_MarkReadByParticipantsOnly ==
  [][/\ \A p \in Procs :
          (procs[p] = Idle /\ procs'[p].pc = "save" /\ procs'[p].op = "markRead")
          => IsParticipant(chats[procs'[p].cid], procs'[p].user)
     /\ \A cid \in ChatIds :
          \A u \in ReadersOf(chats[cid])' : IsParticipant(chats[cid], u)]_vars

\* the users with at least one authenticated connection open
ConnectedUsers == { conns[k].user : k \in { c \in Conns : Online(c) } }

\* C20: in every reachable state isUserOnline(u) is true exactly when a
\* connection of u is open, and getOnlineUsersCount() is the number of users
\* with an open connection.
C20_PresenceIsOpenConnections ==
  /\ \A u \in Users : IsUserOnline(u) <=> u \in ConnectedUsers
  /\ GetOnlineUsersCount = Cardinality(ConnectedUsers)

\* C21: the save of a soft delete leaves the message at its position with
\* isDeleted true and deletedAt set, and out of the default listing and its
\* total; no step shortens a message sequence or clears a deletion.
C21_SoftDeleteKeepsMessage ==
  [][/\ \A p \in Procs :
          Saves(p, "delete")
          => LET old == chats[procs[p].cid]
                 new == chats'[procs[p].cid]
             IN /\ \A i \in DOMAIN procs[p].d.del :
                     /\ i <= Len(new.messages)
                     /\ new.messages[i].isDeleted
                     /\ new.messages[i].deletedAt # NoTime
                     /\ MsgView(new.messages[i]) = MsgView(old.messages[i])
                /\ \A x \in 1..Len(DefaultListing(new)) : ~DefaultListing(new)[x].isDeleted
                /\ ListingTotal(new) = Cardinality(NonDeleted(new.messages))
                /\ ListingTotal(new) <= Len(new.messages) - Cardinality(DOMAIN procs[p].d.del)
     /\ \A cid \in ChatIds :
          /\ Len(chats'[cid].messages) >= Len(chats[cid].messages)
          /\ \A i \in 1..Len(chats[cid].messages) :
               chats[cid].messages[i].isDeleted
               => /\ chats'[cid].messages[i].isDeleted
                  /\ chats'[cid].messages[i].deletedAt # NoTime]_vars

\* C21 witness: a soft delete was saved in a conversation that holds another,
\* non-deleted message.
C21_Witness ==
  /\ last.op = "delete" /\ last.outcome = "saved"
  /\ LET ms == chats[last.cid].messages
     IN /\ \E i \in 1..Len(ms) : ms[i].isDeleted /\ ms[i].sender = last.user
        /\ ListingTotal(chats[last.cid]) = 1
        /\ Len(ms) = 2

\* the active direct conversations whose participants are exactly a and b
PairChats(a, b) ==
  { i \in ChatIds : /\ chats[i].type = "direct"
                    /\ chats[i].isActive
                    /\ Elems(chats[i].participants) = {a, b} }

\* C22: after a duplicate-key error of its insert, findOrCreateDirectChat(A,B)
\* finds once more: if an active direct conversation of {A,B} is stored it
\* returns that conversation and no error; it throws only if none is stored.
C22_DuplicateKeyRetried ==
  [][\A p \in Procs :
       (procs[p].pc = "foc_retry" /\ procs'[p].pc = "foc_done")
       => IF PairChats(procs[p].a, procs[p].b) # {}
          THEN procs'[p].res \in PairChats(procs[p].a, procs[p].b)
          ELSE procs'[p].res = 0]_vars

\* C22 witness: a call whose insert hit the duplicate key has returned the
\* conversation that the winner of the race stored.
C22_Witness ==
  /\ last.op = "foc" /\ last.outcome = "refound"
  /\ \E p \in Procs :
       /\ procs[p].pc = "foc_done"
       /\ procs[p].res \in PairChats(procs[p].a, procs[p].b)

\* findOrCreateDirectChat(a, b) run alone against the collection coll: the
\* collection it leaves and the conversation it returns (0 for a thrown error)
FocAlone(coll, a, b) ==
  LET ids == SortedIds(a, b)
      found == FindDirect(coll, ids)
      doc == PreSave(NewChat(ids), NewChat(ids), TRUE)
  IN IF found # {} THEN [coll |-> coll, res |-> FirstOf(found)]
     ELSE IF DuplicateKey(coll, doc) THEN [coll |-> coll, res |-> 0]
     ELSE [coll |-> Append(coll, doc), res |-> Len(coll) + 1]

\* C23: in every store state and for all distinct users A and B,
\* findOrCreateDirectChat(A,B) followed by findOrCreateDirectChat(B,A) return
\* the same conversation.
C23_PairOrderIrrelevant ==
  \A a \in Users, b \in Users :
    a # b
    => LET first == FocAlone(chats, a, b)
           second == FocAlone(first.coll, b, a)
       IN first.res # 0 /\ second.res = first.res

\* C24: no step changes the content, sender or createdAt of a stored message,
\* or its position in the sequence.
C24_StoredMessagesImmutable ==
  [][\A cid \in ChatIds :
       \A i \in 1..Len(chats[cid].messages) :
         /\ i <= Len(chats'[cid].messages)
         /\ MsgView(chats'[cid].messages[i]) = MsgView(chats[cid].messages[i])]_vars

\* C24 witness: a conversation whose first message has been read by another
\* user or soft-deleted, and which holds a second message.
C24_Witness ==
  \E cid \in ChatIds :
    LET ms == chats[cid].messages
    IN /\ Len(ms) >= 2
       /\ \/ ms[1].isDeleted
          \/ \E u \in Users : u # ms[1].sender /\ u \in ms[1].readBy

\* C25: every stored message has a content that is non-empty after trimming
\* and at most 1000 characters long.
C25_StoredContentValid ==
  \A cid \in ChatIds :
    \A i \in 1..Len(chats[cid].messages) :
      LET c == chats[cid].messages[i].content
      IN Trim(c) # <<>> /\ Len(c) <= MaxContentLen

\* C26: when the save of a send request appends a message, the conversation
\* does not already hold a non-deleted message of the same sender with the
\* same content created less than 5 seconds apart from it: of two identical
\* sends whose handlers both loaded before either saved, one is stored.
C26_ConcurrentTwinsStoredOnce ==
  [][\A p \in Procs :
       (Saves(p, "send") /\ procs[p].d.push # <<>>)
       => LET m  == procs[p].d.push[1]
              ms == chats[procs[p].cid].messages
          IN ~ \E j \in NonDeleted(ms) :
                 /\ ms[j].sender = m.sender
                 /\ ms[j].content = m.content
                 /\ ms[j].createdAt - m.createdAt < DedupWindowMs
                 /\ m.createdAt - ms[j].createdAt < DedupWindowMs]_vars

\* C27: the insert of findOrCreateDirectChat(A,C) is rejected by the unique
\* index only when an active direct conversation of the pair {A,C} is stored;
\* otherwise (whatever conversations A or C have with other users) the call
\* stores and returns a conversation whose participants are exactly {A,C}.
C27_PairsIndependent ==
  [][\A p \in Procs :
       (procs[p].pc = "foc_insert" /\ procs'[p].pc # "foc_insert"
          /\ PairChats(procs[p].a, procs[p].b) = {})
       => /\ procs'[p].pc = "foc_done"
          /\ procs'[p].res \in DOMAIN chats'
          /\ Elems(chats'[procs'[p].res].participants) = {procs[p].a, procs[p].b}]_vars

\* C28: for every stored conversation and participant U, markAsRead(U) leaves
\* the unread count of every other participant, lastMessage, and the content,
\* sender, createdAt and isDeleted of every message as they were.
C28_MarkAsReadFrame ==
  \A cid \in ChatIds, u \in Users, touch \in BOOLEAN :
    IsParticipant(chats[cid], u)
    => LET before == chats[cid]
           after  == MarkAsReadAlone(before, u, touch)
       IN /\ \A w \in Users \ {u} :
               IsParticipant(before, w)
               => GetUnreadCount(after, w) = GetUnreadCount(before, w)
          /\ after.lastMessage = before.lastMessage
          /\ Len(after.messages) = Len(before.messages)
          /\ \A i \in 1..Len(before.messages) :
               /\ MsgView(after.messages[i]) = MsgView(before.messages[i])
               /\ after.messages[i].isDeleted = before.messages[i].isDeleted

\* C29: every new_message event emitted for a send_message request of user U
\* with content c carries a message whose sender is U and whose content is c,
\* whether the request appended a message or was deduplicated.
C29_NewMessageIsTheRequested ==
  [][\A p \in Procs :
       (procs[p].pc = "emit" /\ procs'[p] = Idle)
       => \A k \in Conns :
            inbox'[k] # inbox[k]
            => LET ev == inbox'[k][Len(inbox'[k])]
               IN ev.type = "new_message"
                  => /\ ev.message.sender = procs[p].user
                     /\ ev.message.content = procs[p].content]_vars

BlockConsistent(chat) ==
  /\ chat.isBlocked <=> chat.blockedBy # NoUser
  /\ chat.blockedBy # NoUser => IsParticipant(chat, chat.blockedBy)

\* C30: in every reachable state isBlocked is true exactly when blockedBy is
\* set, and blockedBy is then a participant.  A toggleBlock by X that loaded an
\* unblocked conversation saves it as blocked by X, one that loaded a
\* conversation blocked by X saves it as unblocked, and one that loaded a
\* conversation blocked by the other participant writes neither field; the
\* save stores what the call computed and nothing else of the block state.
C30_BlockOwnedByBlocker ==
  [][/\ \A cid \in ChatIds : BlockConsistent(chats[cid])
     /\ \A cid \in DOMAIN chats' : BlockConsistent(chats'[cid])
     /\ \A p \in Procs :
          (procs[p] = Idle /\ procs'[p].pc = "save" /\ procs'[p].op = "block")
          => LET c == chats[procs'[p].cid]
                 x == procs'[p].user
                 b == procs'[p].d.block
             IN IF ~c.isBlocked THEN b = <<TRUE, x>>
                ELSE IF c.blockedBy = x THEN b = <<FALSE, NoUser>>
                ELSE b = <<>>
     /\ \A p \in Procs :
          Saves(p, "block")
          => LET b == procs[p].d.block
                 before == chats[procs[p].cid]
                 after  == chats'[procs[p].cid]
             IN IF b = <<>>
                THEN /\ after.isBlocked = before.isBlocked
                     /\ after.blockedBy = before.blockedBy
                ELSE <<after.isBlocked, after.blockedBy>> = b]_vars

\* C30 witness: a toggleBlock of one participant has been saved on a
\* conversation blocked by the other, which is still blocked by the other.
C30_Witness ==
  /\ last.op = "block" /\ last.outcome = "saved"
  /\ chats[last.cid].isBlocked
  /\ chats[last.cid].blockedBy # last.user
  /\ IsParticipant(chats[last.cid], last.user)

====
